---- MODULE Spec2Model ----
(***************************************************************************)
(* Model of api/join.js: the join relay.  A request handler validates the  *)
(* inbound request, builds an ordered list of upstream attempts from the   *)
(* configuration, and tries them one after the other, each under a         *)
(* deadline timer, until one answers with a 2xx status or all have failed. *)
(*                                                                         *)
(* Strings the code takes apart (code, name) are sequences of characters;  *)
(* strings it only concatenates or compares are TLA+ strings.              *)
(***************************************************************************)
EXTENDS Integers, Sequences, FiniteSets, TLC

VARIABLES
    UPSTREAM_URLS,   \* join.js:6, the parsed allow list (a sequence of URLs)
    UPSTREAM_BASE,   \* join.js:8, the optional single base ("" when unset)
    h                \* h[r]: the state of handler invocation r

vars == <<UPSTREAM_URLS, UPSTREAM_BASE, h>>

----------------------------------------------------------------------------
(* Bounds of the model *)

\* The per-attempt deadline, in clock ticks (TIMEOUT_MS scaled down).
TIMEOUT_MS == 2

\* The longest explicit target list the configuration is drawn from.
MaxTargets == 2

----------------------------------------------------------------------------
(* Values *)

\* Two UTF-16 surrogate code units: together they form U+1F600.
HiSur == "<D83D>"
LoSur == "<DE00>"

\* A request field: undefined, or a string (a sequence of characters).
Absent == [defined |-> FALSE, str |-> <<>>]
Given(s) == [defined |-> TRUE, str |-> s]

CodeValues ==
    {Absent, Given(<<>>), Given(<<"a", " ">>), Given(<<HiSur>>),
     Given(<<HiSur, LoSur>>)}

NameValues ==
    {Absent, Given(<<>>), Given(<<"n", "&">>), Given(<<LoSur>>)}

Methods == {"OPTIONS", "GET", "POST"}

\* Inbound requests: req.body may be undefined altogether.
Requests ==
    [method : Methods, hasBody : {TRUE}, code : CodeValues, name : NameValues]
    \cup [method : Methods, hasBody : {FALSE}, code : {Absent}, name : {Absent}]

\* Status codes an upstream may answer with.
Statuses == {200, 201, 404, 500}

\* Body texts an upstream may answer with.
JsonTexts == {"{\"room\":\"x\"}", "null"}
Bodies == JsonTexts \cup {"", "oops"}

\* JavaScript values carried as data: undefined, a parsed JSON value (named
\* by its canonical text) or a raw string.
Undefined == [kind |-> "undefined", of |-> ""]
Null == [kind |-> "json", of |-> "null"]
EmptyObject == [kind |-> "json", of |-> "{}"]
Json(t) == [kind |-> "json", of |-> t]
RawText(t) == [kind |-> "text", of |-> t]

Url(k) == "https://t" \o ToString(k) \o ".test"
TargetLists == {[k \in 1..n |-> Url(k)] : n \in 0..MaxTargets}
BaseValues == {"", "https://base.test"}

----------------------------------------------------------------------------
(* Pure functions *)

\* Mutant: only undefined counts as missing; "" passes.
Falsy_UndefinedOnly(v) == ~v.defined

\* !v for a request field (join.js:61): undefined and "" are falsy.
Falsy(v) == ~v.defined \/ v.str = <<>>

Unreserved == {"a", "n"}

\* encodeURIComponent throws URIError on a lone surrogate.
EncThrows(s) ==
    \E k \in 1..Len(s) :
        \/ s[k] = HiSur /\ (k = Len(s) \/ s[k + 1] # LoSur)
        \/ s[k] = LoSur /\ (k = 1 \/ s[k - 1] # HiSur)

EncChar(c) ==
    IF c \in Unreserved THEN c
    ELSE IF c = " " THEN "%20"
    ELSE IF c = "&" THEN "%26"
    ELSE "%3F"

\* encodeURIComponent on a string without lone surrogates.
RECURSIVE enc(_)
enc(s) ==
    IF s = <<>> THEN ""
    ELSE IF s[1] = HiSur THEN "%F0%9F%98%80" \o enc(Tail(Tail(s)))
    ELSE EncChar(s[1]) \o enc(Tail(s))

getQuery(code, name) == "code=" \o enc(code) \o "&name=" \o enc(name)

NoBody == [code |-> <<>>, name |-> <<>>, none |-> TRUE]

\* The POST and the GET descriptor of one URL (join.js:34-35, 71-72).
PostAttempt(u, code, name) ==
    [info |-> "POST " \o u, method |-> "POST", url |-> u,
     body |-> [code |-> code, name |-> name, none |-> FALSE]]

GetAttempt(u, code, name) ==
    [info |-> "GET " \o u \o "?" \o getQuery(code, name), method |-> "GET",
     url |-> u \o "?" \o getQuery(code, name), body |-> NoBody]

\* Mutant: the GET descriptor is pushed before the POST descriptor.
RECURSIVE PairUp_GetFirst(_, _, _)
PairUp_GetFirst(urls, code, name) ==
    IF urls = <<>> THEN <<>>
    ELSE <<GetAttempt(urls[1], code, name), PostAttempt(urls[1], code, name)>>
         \o PairUp_GetFirst(Tail(urls), code, name)

\* urls.forEach: POST first, then GET, for each URL.
RECURSIVE PairUp(_, _, _)
PairUp(urls, code, name) ==
    IF urls = <<>> THEN <<>>
    ELSE <<PostAttempt(urls[1], code, name), GetAttempt(urls[1], code, name)>>
         \o PairUp(Tail(urls), code, name)

defaultCandidates(base, code, name) ==
    LET roots == IF base # "" THEN <<base>> ELSE <<>>
        paths == IF roots = <<>> THEN <<>>
                 ELSE <<roots[1] \o "/api/join", roots[1] \o "/v1/join",
                        roots[1] \o "/join">>
        urls == IF Len(UPSTREAM_URLS) > 0 THEN UPSTREAM_URLS ELSE paths
    IN PairUp(urls, code, name)

\* join.js:66-76.
BuildAttempts(code, name) ==
    IF Len(UPSTREAM_URLS) > 0 THEN PairUp(UPSTREAM_URLS, code, name)
    ELSE defaultCandidates(UPSTREAM_BASE, code, name)

\* Building the candidates throws when either field has a lone surrogate
\* (enc at join.js:69 or join.js:29, both outside any try).
BuildThrows(code, name) == EncThrows(code) \/ EncThrows(name)

\* Mutant: a body that does not parse is dropped instead of kept as text.
ParseBody_DropsText(rawText) ==
    IF rawText = "" THEN EmptyObject
    ELSE IF rawText \in JsonTexts THEN Json(rawText)
    ELSE EmptyObject

\* data = rawText ? JSON.parse(rawText) : {}  catch: data = rawText
ParseBody(rawText) ==
    IF rawText = "" THEN EmptyObject
    ELSE IF rawText \in JsonTexts THEN Json(rawText)
    ELSE RawText(rawText)

\* Mutant: only a 200 counts as a success.
IsOk_Only200(status) == status = 200

\* Response.ok
IsOk(status) == status >= 200 /\ status <= 299

\* v ?? null
OrNull(v) == IF v = Undefined \/ v = Null THEN Null ELSE v

\* s || 502
Or502(s) == IF s = 0 THEN 502 ELSE s

----------------------------------------------------------------------------
(* Responses: res.status(s).json(body) or res.status(s).end() *)

NoContent == [status |-> 204, body |-> [empty |-> TRUE]]

MethodNotAllowed ==
    [status |-> 405,
     body |-> [error |-> "Use POST /api/join with JSON { code, name }"]]

MissingFields == [status |-> 400, body |-> [error |-> "Missing code or name"]]

\* Mutant: reports the relay's own 200 instead of the upstream's status.
SuccessResponse_Status200(result) ==
    [status |-> 200,
     body |-> [joined |-> TRUE, upstreamStatus |-> 200,
               via |-> result.info, data |-> result.data]]

\* join.js:106-111
SuccessResponse(result) ==
    [status |-> 200,
     body |-> [joined |-> TRUE, upstreamStatus |-> result.status,
               via |-> result.info, data |-> result.data]]

\* join.js:127-131
FailureResponse(lastError) ==
    [status |-> Or502(lastError.status),
     body |-> [joined |-> FALSE, error |-> lastError.message,
               upstreamData |-> OrNull(lastError.data)]]

\* join.js:78
NoAttempts == [status |-> 500, message |-> "No attempts made.", data |-> Undefined]

\* Mutant: every recorded failure gets the generic unreachable status.
UpstreamError_Generic(result) ==
    [status |-> 502,
     message |-> "Upstream error via " \o result.info,
     data |-> result.data]

\* join.js:113-117
UpstreamError(result) ==
    [status |-> result.status,
     message |-> "Upstream error via " \o result.info,
     data |-> result.data]

\* join.js:120-123
FetchFailed(a) ==
    [status |-> 502,
     message |-> "Fetch failed (timeout/CORS/host) via " \o a.info,
     data |-> Undefined]

\* join.js:96-101: the value the attempt's async function returns.
Result(a, status, data) ==
    [ok |-> IsOk(status), status |-> status, data |-> data, info |-> a.info]

----------------------------------------------------------------------------
(* State of one handler invocation *)

\* What is remembered of the attempt that ended last (history only).
NoOutcome ==
    [kind |-> "none", why |-> "none", gotResponse |-> FALSE, status |-> 0,
     data |-> Undefined, index |-> 0, fired |-> FALSE, text |-> ""]

NewHandler(req) ==
    [req |-> req,
     pc |-> "start",          \* start, loop, fetching, reading, done, threw
     attempts |-> <<>>,       \* const attempts
     idx |-> 0,               \* position of the for-of loop: a = attempts[idx]
     lastError |-> NoAttempts,
     armed |-> {},            \* attempts whose setTimeout is pending
     aborted |-> {},          \* attempts whose controller.abort() ran
     inflight |-> {},         \* attempts whose upstream call is open
     upstreamStatus |-> 0,    \* upstream.status once fetch has resolved
     elapsed |-> 0,           \* ticks since the current timer was set
     latency |-> 0,           \* ticks since the first attempt started
     sent |-> <<>>,           \* responses sent on res
     calls |-> <<>>,          \* history: attempts for which fetch was called
     failures |-> 0,          \* history: attempts that ended in a failure
     captured |-> FALSE,      \* history: some failed attempt recorded a body
     last |-> NoOutcome]

Init ==
    /\ UPSTREAM_URLS \in TargetLists
    /\ UPSTREAM_BASE \in BaseValues
    /\ h \in [{1} -> {NewHandler(q) : q \in Requests}]

Set(r, hr) ==
    /\ h' = [h EXCEPT ![r] = hr]
    /\ UNCHANGED <<UPSTREAM_URLS, UPSTREAM_BASE>>

Respond(hr, resp) == [hr EXCEPT !.sent = Append(@, resp), !.pc = "done"]

----------------------------------------------------------------------------
(* The handler up to the loop: join.js:49-78 *)

\* What the synchronous prefix of the handler does with a request.
Prefix(hr) ==
    LET req == hr.req
        code == IF req.hasBody THEN req.code ELSE Absent
        name == IF req.hasBody THEN req.name ELSE Absent
    IN IF req.method = "OPTIONS" THEN Respond(hr, NoContent)
       ELSE IF req.method # "POST" THEN Respond(hr, MethodNotAllowed)
       ELSE IF Falsy(code) \/ Falsy(name) THEN Respond(hr, MissingFields)
       ELSE IF BuildThrows(code.str, name.str) THEN [hr EXCEPT !.pc = "threw"]
       ELSE [hr EXCEPT !.attempts = BuildAttempts(code.str, name.str),
                       !.lastError = NoAttempts,
                       !.pc = "loop"]

Receive(r) ==
    /\ h[r].pc = "start"
    /\ Set(r, Prefix(h[r]))

----------------------------------------------------------------------------
(* The loop: join.js:80-125 *)

\* Mutant: the loop does not await the attempt before taking the next one.
CanStartNext_NoAwait(hr) ==
    hr.pc \in {"loop", "fetching", "reading"} /\ hr.idx < Len(hr.attempts)

\* for (const a of attempts): the next iteration starts only from the loop
\* head, which the handler reaches again after "await run.run" has settled.
CanStartNext(hr) == hr.pc = "loop" /\ hr.idx < Len(hr.attempts)

\* Mutant: fetch is called without the deadline timer.
StartAttempt_NoTimer(r) ==
    LET hr == h[r] k == hr.idx + 1 IN
    /\ CanStartNext(hr)
    /\ Set(r, [hr EXCEPT !.idx = k,
                         !.inflight = @ \cup {k},
                         !.calls = Append(@, k),
                         !.upstreamStatus = 0,
                         !.elapsed = 0,
                         !.pc = "fetching"])

\* withTimeout(...): set the timer, call fetch (join.js:82-90, 40-47).
StartAttempt(r) ==
    LET hr == h[r] k == hr.idx + 1 IN
    /\ CanStartNext(hr)
    /\ Set(r, [hr EXCEPT !.idx = k,
                         !.armed = @ \cup {k},
                         !.inflight = @ \cup {k},
                         !.calls = Append(@, k),
                         !.upstreamStatus = 0,
                         !.elapsed = 0,
                         !.pc = "fetching"])

\* Mutant: the catch block keeps the failure recorded first.
Rejected_KeepFirst(hr, why, fired) ==
    LET a == hr.attempts[hr.idx] IN
    [hr EXCEPT !.lastError = IF hr.failures > 0 THEN @ ELSE FetchFailed(a),
               !.armed = @ \ {hr.idx},
               !.inflight = @ \ {hr.idx},
               !.failures = @ + 1,
               !.last = [kind |-> "unreachable", why |-> why,
                         gotResponse |-> FALSE, status |-> 0,
                         data |-> Undefined, index |-> hr.idx, fired |-> fired,
                         text |-> ""],
               !.pc = "loop"]

\* Mutant: the catch block merges into the record instead of replacing it,
\* so a body captured earlier survives.
Rejected_KeepData(hr, why, fired) ==
    LET a == hr.attempts[hr.idx] IN
    [hr EXCEPT !.lastError = [FetchFailed(a) EXCEPT !.data = hr.lastError.data],
               !.armed = @ \ {hr.idx},
               !.inflight = @ \ {hr.idx},
               !.failures = @ + 1,
               !.last = [kind |-> "unreachable", why |-> why,
                         gotResponse |-> FALSE, status |-> 0,
                         data |-> Undefined, index |-> hr.idx, fired |-> fired,
                         text |-> ""],
               !.pc = "loop"]

\* Mutant: after a failed fetch the loop tries the same descriptor again.
Rejected_Retry(hr, why, fired) ==
    LET a == hr.attempts[hr.idx] IN
    [hr EXCEPT !.lastError = FetchFailed(a),
               !.armed = @ \ {hr.idx},
               !.inflight = @ \ {hr.idx},
               !.failures = @ + 1,
               !.last = [kind |-> "unreachable", why |-> why,
                         gotResponse |-> FALSE, status |-> 0,
                         data |-> Undefined, index |-> hr.idx, fired |-> fired,
                         text |-> ""],
               !.idx = @ - 1,
               !.pc = "loop"]

\* run.run rejected: finally clearTimeout(id), then the catch block.
Rejected(hr, why, fired) ==
    LET a == hr.attempts[hr.idx] IN
    [hr EXCEPT !.lastError = FetchFailed(a),
               !.armed = @ \ {hr.idx},
               !.inflight = @ \ {hr.idx},
               !.failures = @ + 1,
               !.last = [kind |-> "unreachable", why |-> why,
                         gotResponse |-> FALSE, status |-> 0,
                         data |-> Undefined, index |-> hr.idx, fired |-> fired,
                         text |-> ""],
               !.pc = "loop"]

\* Mutant: the timer is cleared only when the run rejects, not when it
\* resolves.
Resolved_NoClear(hr, result, text, why, fired) ==
    LET done == [hr EXCEPT !.inflight = @ \ {hr.idx},
                           !.last = [kind |-> IF result.ok THEN "ok" ELSE "rejected",
                                     why |-> why, gotResponse |-> TRUE,
                                     status |-> result.status, data |-> result.data,
                                     index |-> hr.idx, fired |-> fired,
                                     text |-> text]]
    IN IF result.ok THEN Respond(done, SuccessResponse(result))
       ELSE [done EXCEPT !.lastError = UpstreamError(result),
                         !.failures = @ + 1,
                         !.captured = TRUE,
                         !.pc = "loop"]

\* run.run resolved with result: finally clearTimeout(id), then join.js:105-118.
Resolved(hr, result, text, why, fired) ==
    LET done == [hr EXCEPT !.armed = @ \ {hr.idx},
                           !.inflight = @ \ {hr.idx},
                           !.last = [kind |-> IF result.ok THEN "ok" ELSE "rejected",
                                     why |-> why, gotResponse |-> TRUE,
                                     status |-> result.status, data |-> result.data,
                                     index |-> hr.idx, fired |-> fired,
                                     text |-> text]]
    IN IF result.ok THEN Respond(done, SuccessResponse(result))
       ELSE [done EXCEPT !.lastError = UpstreamError(result),
                         !.failures = @ + 1,
                         !.captured = TRUE,
                         !.pc = "loop"]

\* await fetch(a.url, opts) resolves: the status line and headers arrived.
FetchResponds(r, s) ==
    /\ h[r].pc = "fetching"
    /\ Set(r, [h[r] EXCEPT !.upstreamStatus = s, !.pc = "reading"])

\* await fetch(a.url, opts) rejects: a network error.
FetchFails(r) ==
    /\ h[r].pc = "fetching"
    /\ Set(r, Rejected(h[r], "network", FALSE))

\* What the attempt makes of the text it read: join.js:91-101.
Settle(hr, rawText, why, fired) ==
    Resolved(hr, Result(hr.attempts[hr.idx], hr.upstreamStatus, ParseBody(rawText)),
             rawText, why, fired)

\* await upstream.text() resolves with the body.
BodyRead(r, t) ==
    /\ h[r].pc = "reading"
    /\ Set(r, Settle(h[r], t, "status", FALSE))

\* upstream.text() rejects (the connection broke): .catch(() => "").
BodyReadFails(r) ==
    /\ h[r].pc = "reading"
    /\ Set(r, Settle(h[r], "", "read-error", FALSE))

\* What controller.abort() does to the attempt in progress: a pending fetch
\* rejects; a pending upstream.text() rejects, which .catch(() => "") turns
\* into an empty body.
OnAbort(hr) ==
    LET ab == [hr EXCEPT !.aborted = @ \cup {hr.idx}, !.armed = @ \ {hr.idx}]
    IN IF hr.pc = "fetching" THEN Rejected(ab, "timeout", TRUE)
       ELSE Settle(ab, "", "timeout", TRUE)

\* The timer set by withTimeout expires: () => controller.abort().
TimerFires(r) ==
    /\ h[r].pc \in {"fetching", "reading"}
    /\ h[r].idx \in h[r].armed
    /\ h[r].elapsed = TIMEOUT_MS
    /\ Set(r, OnAbort(h[r]))

\* Mutant: lastError is one variable of the module, shared by all
\* invocations, so the response is built from whichever wrote it.
Exhausted_SharedLastError(r) ==
    /\ h[r].pc = "loop"
    /\ ~CanStartNext(h[r])
    /\ \E q \in DOMAIN h :
          Set(r, Respond(h[r], FailureResponse(h[q].lastError)))

\* The loop is over: join.js:127-131.
Exhausted(r) ==
    /\ h[r].pc = "loop"
    /\ ~CanStartNext(h[r])
    /\ Set(r, Respond(h[r], FailureResponse(h[r].lastError)))

\* The clock advances by one tick while some handler waits on an upstream
\* call; a timer that is due fires first.
Tick ==
    /\ \E r \in DOMAIN h : h[r].inflight # {}
    /\ \A r \in DOMAIN h : h[r].armed # {} => h[r].elapsed < TIMEOUT_MS
    /\ h' = [r \in DOMAIN h |->
               IF h[r].inflight # {}
               THEN [h[r] EXCEPT !.elapsed = IF h[r].armed # {} THEN @ + 1 ELSE @,
                                 !.latency = @ + 1]
               ELSE h[r]]
    /\ UNCHANGED <<UPSTREAM_URLS, UPSTREAM_BASE>>

Next ==
    \/ \E r \in DOMAIN h : Receive(r)
    \/ \E r \in DOMAIN h : StartAttempt(r)
    \/ \E r \in DOMAIN h, s \in Statuses : FetchResponds(r, s)
    \/ \E r \in DOMAIN h : FetchFails(r)
    \/ \E r \in DOMAIN h, t \in Bodies : BodyRead(r, t)
    \/ \E r \in DOMAIN h : BodyReadFails(r)
    \/ \E r \in DOMAIN h : TimerFires(r)
    \/ \E r \in DOMAIN h : Exhausted(r)
    \/ Tick

Spec == Init /\ [][Next]_vars

\* The runtime runs a handler that is ready to run, the clock advances and a
\* timer that is due fires; the network owes nothing.
Fairness ==
    /\ WF_vars(\E r \in DOMAIN h : Receive(r))
    /\ WF_vars(\E r \in DOMAIN h : StartAttempt(r))
    /\ WF_vars(\E r \in DOMAIN h : Exhausted(r))
    /\ WF_vars(\E r \in DOMAIN h : TimerFires(r))
    /\ WF_vars(Tick)

FairSpec == Spec /\ Fairness

\* Two invocations of the handler in one process, interleaved at their
\* awaits, with one target configured: the first with a valid request, the
\* second with another valid request or one that lacks its code.  The
\* upstream's answers are drawn from fewer statuses and bodies.
ConcRequest(code) ==
    [method |-> "POST", hasBody |-> TRUE, code |-> code,
     name |-> Given(<<"n", "&">>)]

InitConc ==
    /\ UPSTREAM_URLS = <<Url(1)>>
    /\ UPSTREAM_BASE = ""
    /\ \E c \in {Given(<<>>), Given(<<HiSur, LoSur>>)} :
          h = [r \in {1, 2} |->
                 NewHandler(ConcRequest(IF r = 1 THEN Given(<<"a", " ">>) ELSE c))]

ConcStatuses == {200, 404}
ConcBodies == {"oops"}

NextConc ==
    \/ \E r \in DOMAIN h : Receive(r)
    \/ \E r \in DOMAIN h : StartAttempt(r)
    \/ \E r \in DOMAIN h, s \in ConcStatuses : FetchResponds(r, s)
    \/ \E r \in DOMAIN h : FetchFails(r)
    \/ \E r \in DOMAIN h, t \in ConcBodies : BodyRead(r, t)
    \/ \E r \in DOMAIN h : BodyReadFails(r)
    \/ \E r \in DOMAIN h : TimerFires(r)
    \/ \E r \in DOMAIN h : Exhausted(r)
    \/ Tick

SpecConc == InitConc /\ [][NextConc]_vars

----------------------------------------------------------------------------
(* Vocabulary of the properties *)

Handlers == DOMAIN h

\* The request passed validation: POST with code and name both non-empty.
Valid(req) ==
    /\ req.method = "POST"
    /\ req.hasBody
    /\ req.code.defined /\ req.code.str # <<>>
    /\ req.name.defined /\ req.name.str # <<>>

IsJoinBody(b) == "joined" \in DOMAIN b

\* The handler has sent a joined=true (resp. joined=false) response.
SentJoined(hr) == \E n \in 1..Len(hr.sent) :
    IsJoinBody(hr.sent[n].body) /\ hr.sent[n].body.joined

SentFailed(hr) == \E n \in 1..Len(hr.sent) :
    IsJoinBody(hr.sent[n].body) /\ ~hr.sent[n].body.joined

LastFailed(hr) == hr.last.kind \in {"rejected", "unreachable"}

UpTo(k) == [j \in 1..k |-> j]

LastLabel(hr) == hr.attempts[Len(hr.attempts)].info

----------------------------------------------------------------------------
(* Properties *)

\* C1: when descriptors 1..k-1 have all failed and descriptor k succeeds, the
\* one response is 200 with joined=true, via = the label of descriptor k,
\* upstreamStatus = the status of that attempt and data = its body, and
\* fetch has been called for descriptors 1..k only, now and ever after.
C1_FirstSuccessWins ==
    \A r \in Handlers :
        LET hr == h[r] k == hr.last.index IN
        hr.last.kind = "ok" =>
            /\ hr.failures = k - 1
            /\ hr.pc = "done"
            /\ hr.sent = <<[status |-> 200,
                            body |-> [joined |-> TRUE,
                                      upstreamStatus |-> hr.last.status,
                                      via |-> hr.attempts[k].info,
                                      data |-> hr.last.data]]>>
            /\ hr.calls = UpTo(k)
            /\ hr.inflight = {}

\* C1 witness: a success on a descriptor after two failures, with later
\* descriptors left untried and an upstream status other than 200.
C1_Witness ==
    \E r \in Handlers :
        /\ h[r].last.kind = "ok"
        /\ h[r].last.index = 3
        /\ h[r].last.status = 201
        /\ Len(h[r].attempts) > 3
        /\ h[r].pc = "done"

\* C2: at most one upstream call is open at any time, and when fetch has been
\* called for k descriptors the outcomes of the first k-1 are known.
C2_Sequential ==
    \A r \in Handlers :
        LET hr == h[r] IN
        /\ Cardinality(hr.inflight) <= 1
        /\ hr.inflight \subseteq {hr.idx}
        /\ Len(hr.calls) >= 1 =>
              /\ hr.last.index >= Len(hr.calls) - 1
              /\ hr.failures + (IF hr.last.kind = "ok" THEN 1 ELSE 0)
                     >= Len(hr.calls) - 1

\* C2 witness: the third call is open, the first two have ended.
C2_Witness ==
    \E r \in Handlers :
        /\ h[r].inflight = {3}
        /\ h[r].calls = UpTo(3)
        /\ h[r].failures = 2

\* C3: an attempt during which the deadline timer fired has a failure of the
\* unreachable kind as its outcome and never leads to a joined=true response.
C3_DeadlineIsFailure ==
    \A r \in Handlers :
        h[r].last.fired =>
            /\ h[r].last.kind = "unreachable"
            /\ ~SentJoined(h[r])

\* An attempt failed in the sense of C4: the deadline timer fired during it,
\* or its call rejected, or the upstream answered with a non-success status.
AttemptFailed(hr) == hr.last.fired \/ LastFailed(hr)

\* C4: after a failed attempt of any kind (a timeout, a network error or a
\* non-success status) on a descriptor that is not the last, nothing has been
\* sent and the loop is at, or has started, the next descriptor; a
\* joined=false response for a non-empty sequence means fetch was called for
\* every descriptor and every attempt failed.
C4_FailureAdvances ==
    \A r \in Handlers :
        LET hr == h[r] n == Len(hr.attempts) IN
        /\ (AttemptFailed(hr) /\ hr.last.index < n) =>
              /\ hr.sent = <<>>
              /\ \/ hr.pc = "loop" /\ hr.idx = hr.last.index
                 \/ hr.pc \in {"fetching", "reading"} /\ hr.idx = hr.last.index + 1
        /\ (SentFailed(hr) /\ n > 0) =>
              /\ hr.calls = UpTo(n)
              /\ hr.failures = n
              /\ AttemptFailed(hr) /\ hr.last.index = n

\* C5: on exhaustion of a non-empty sequence the error message is one of the
\* two failure messages built with the label of the last descriptor.
C5_NamesLastLabel ==
    \A r \in Handlers :
        LET hr == h[r] IN
        (SentFailed(hr) /\ Len(hr.attempts) > 0) =>
            /\ Len(hr.sent) = 1
            /\ hr.sent[1].body.error \in
                  {"Upstream error via " \o LastLabel(hr),
                   "Fetch failed (timeout/CORS/host) via " \o LastLabel(hr)}

\* C5 witness: an earlier descriptor was rejected with a body and the last
\* one was unreachable.
C5_Witness ==
    \E r \in Handlers :
        /\ SentFailed(h[r])
        /\ Len(h[r].attempts) >= 2
        /\ h[r].captured
        /\ h[r].last.kind = "unreachable"
        /\ h[r].last.why = "network"

\* C6: on exhaustion of a non-empty sequence the response status is the
\* upstream status of the last attempt when that attempt got an upstream
\* response, and 502 when it got none.
C6_StatusOfLastFailure ==
    \A r \in Handlers :
        LET hr == h[r] IN
        (SentFailed(hr) /\ Len(hr.attempts) > 0) =>
            /\ Len(hr.sent) = 1
            /\ hr.sent[1].status =
                  IF hr.last.gotResponse THEN hr.last.status ELSE 502

\* C6 witness: the last attempt was rejected with 404.
C6_Witness ==
    \E r \in Handlers :
        /\ SentFailed(h[r])
        /\ Len(h[r].attempts) >= 2
        /\ h[r].last.gotResponse
        /\ h[r].last.status = 404
        /\ h[r].sent[1].status = 404

\* C7: on exhaustion of a non-empty sequence upstreamData is the body of the
\* last attempt when that attempt got an upstream response, and null when it
\* got none, whatever earlier attempts captured.
C7_DataOfLastFailure ==
    \A r \in Handlers :
        LET hr == h[r] IN
        (SentFailed(hr) /\ Len(hr.attempts) > 0) =>
            /\ Len(hr.sent) = 1
            /\ hr.sent[1].body.upstreamData =
                  IF hr.last.gotResponse THEN hr.last.data ELSE Null

\* C7 witness: an earlier attempt captured a body, the last one was
\* unreachable, and upstreamData is null.
C7_Witness ==
    \E r \in Handlers :
        /\ SentFailed(h[r])
        /\ h[r].captured
        /\ h[r].last.kind = "unreachable"
        /\ h[r].sent[1].body.upstreamData = Null

\* C8: fetch is called only for a valid POST request; once handled, a POST
\* with a missing or empty field has exactly the 400 response, any method
\* other than POST and OPTIONS exactly the 405 response, and in both cases
\* no candidate was built and no upstream call made.
C8_OnlyValidPostGoesUpstream ==
    \A r \in Handlers :
        LET hr == h[r] IN
        /\ hr.calls # <<>> => Valid(hr.req)
        /\ (hr.pc # "start" /\ hr.req.method = "POST" /\ ~Valid(hr.req)) =>
              /\ hr.sent = <<MissingFields>>
              /\ hr.sent[1].status = 400
              /\ hr.attempts = <<>> /\ hr.calls = <<>> /\ hr.pc = "done"
        /\ (hr.pc # "start" /\ hr.req.method \notin {"POST", "OPTIONS"}) =>
              /\ hr.sent = <<MethodNotAllowed>>
              /\ hr.sent[1].status = 405
              /\ hr.attempts = <<>> /\ hr.calls = <<>> /\ hr.pc = "done"

\* C8 witness: a POST with an empty code and a usable name was answered 400
\* although targets are configured.
C8_Witness ==
    \E r \in Handlers :
        /\ h[r].req.method = "POST"
        /\ h[r].req.code = Given(<<>>)
        /\ h[r].req.name = Given(<<"n", "&">>)
        /\ Len(UPSTREAM_URLS) > 0
        /\ h[r].pc = "done"
        /\ h[r].sent = <<MissingFields>>

\* C9: with no target list and no base, a valid request ends with exactly the
\* 500 "No attempts made." failure and no upstream call; and an ended valid
\* request has that response if and only if fetch was never called.
C9_NoConfigIsTerminalFailure ==
    \A r \in Handlers :
        LET hr == h[r]
            noAttempts == [status |-> 500,
                           body |-> [joined |-> FALSE,
                                     error |-> "No attempts made.",
                                     upstreamData |-> Null]]
        IN (Valid(hr.req) /\ hr.pc \in {"done", "threw"}) =>
              /\ (Len(UPSTREAM_URLS) = 0 /\ UPSTREAM_BASE = "") =>
                    hr.sent = <<noAttempts>> /\ hr.calls = <<>>
              /\ (hr.sent = <<noAttempts>>) <=> (hr.calls = <<>>)

\* C10: a handler never ends by throwing, never sends a second response, and
\* has sent exactly one response when it ends.
C10_ExactlyOneResponse ==
    \A r \in Handlers :
        /\ h[r].pc # "threw"
        /\ Len(h[r].sent) <= 1
        /\ h[r].pc = "done" => Len(h[r].sent) = 1

\* C11: under FairSpec every valid request is eventually answered, with at
\* most one call per descriptor made by then.
C11_EveryValidRequestAnswered ==
    Valid(h[1].req) ~>
        (h[1].pc = "done" /\ Len(h[1].sent) = 1
         /\ Len(h[1].calls) <= Len(h[1].attempts))

\* The percent-encoding (RFC 3986, UTF-8) of the well-formed field values the
\* requests are drawn from, written out.
PercentEncoded(str) ==
    CASE str = <<"a", " ">> -> "a%20"
      [] str = <<HiSur, LoSur>> -> "%F0%9F%98%80"
      [] str = <<"n", "&">> -> "n%26"
      [] OTHER -> "?"

ExpectedQuery(req) ==
    "code=" \o PercentEncoded(req.code.str)
        \o "&name=" \o PercentEncoded(req.name.str)

\* The POST and GET descriptors the specification prescribes for URL u.
ExpectedPost(u, req) ==
    [info |-> "POST " \o u, method |-> "POST", url |-> u,
     body |-> [code |-> req.code.str, name |-> req.name.str, none |-> FALSE]]

ExpectedGet(u, req) ==
    [info |-> "GET " \o u \o "?" \o ExpectedQuery(req), method |-> "GET",
     url |-> u \o "?" \o ExpectedQuery(req), body |-> NoBody]

\* C12: for a valid request and an explicit target list of length N >= 1
\* (with or without a base), once the handler is past building, the
\* candidate sequence has 2N descriptors: for the i-th target the POST
\* descriptor (raw URL, payload the fields as given) at 2i-1 and the GET
\* descriptor (URL with the percent-encoded query) at 2i.
C12_ExplicitListGivesPairs ==
    \A r \in Handlers :
        LET hr == h[r] N == Len(UPSTREAM_URLS) IN
        (Valid(hr.req) /\ hr.pc # "start" /\ N >= 1) =>
            /\ Len(hr.attempts) = 2 * N
            /\ \A i \in 1..N :
                  /\ hr.attempts[2 * i - 1] = ExpectedPost(UPSTREAM_URLS[i], hr.req)
                  /\ hr.attempts[2 * i] = ExpectedGet(UPSTREAM_URLS[i], hr.req)

\* C13: for a valid request, no target list and a base, once the handler is
\* past building, the candidate sequence is POST, GET of base/api/join, then
\* of base/v1/join, then of base/join: six descriptors.
C13_BaseGivesSixInOrder ==
    \A r \in Handlers :
        LET hr == h[r] b == UPSTREAM_BASE IN
        (Valid(hr.req) /\ hr.pc # "start" /\ Len(UPSTREAM_URLS) = 0 /\ b # "") =>
            hr.attempts =
                <<ExpectedPost(b \o "/api/join", hr.req),
                  ExpectedGet(b \o "/api/join", hr.req),
                  ExpectedPost(b \o "/v1/join", hr.req),
                  ExpectedGet(b \o "/v1/join", hr.req),
                  ExpectedPost(b \o "/join", hr.req),
                  ExpectedGet(b \o "/join", hr.req)>>

\* C14: whenever fetch has been called for a GET descriptor k, descriptor
\* k-1 is the POST descriptor of the same target, fetch was called for it
\* earlier, every earlier call has ended, and none of them succeeded.
C14_GetOnlyAfterFailedPost ==
    \A r \in Handlers :
        LET hr == h[r] IN
        \A n \in 1..Len(hr.calls) :
            LET k == hr.calls[n] IN
            hr.attempts[k].method = "GET" =>
                /\ k >= 2
                /\ hr.attempts[k - 1].method = "POST"
                /\ hr.attempts[k].url =
                      hr.attempts[k - 1].url \o "?" \o ExpectedQuery(hr.req)
                /\ \E m \in 1..(n - 1) : hr.calls[m] = k - 1
                /\ hr.failures >= n - 1
                /\ hr.last.kind = "ok" => hr.last.index >= k

\* C14 witness: the GET of the second target is in flight, after the POST of
\* that target ended in a failure.
C14_Witness ==
    \E r \in Handlers :
        /\ h[r].calls = UpTo(4)
        /\ h[r].attempts[4].method = "GET"
        /\ h[r].inflight = {4}
        /\ h[r].last.index = 3
        /\ LastFailed(h[r])

\* The data field of the one response a handler sent.
SentData(hr) == hr.sent[1].body.data

\* C15 as claimed: on a successful attempt, data is the parsed value of the
\* body text when that text is valid JSON and the raw text otherwise.
C15_BodyPassedThrough ==
    \A r \in Handlers :
        LET hr == h[r] t == hr.last.text IN
        hr.last.kind = "ok" =>
            /\ Len(hr.sent) = 1
            /\ SentData(hr) = IF t \in JsonTexts THEN Json(t) ELSE RawText(t)

\* C15 as amended: on a successful attempt, data is the parsed value when
\* the body text is non-empty valid JSON, the raw text when it is non-empty
\* and not valid JSON, and the empty object when the text is empty (no body,
\* or a read that failed or was cut off and is taken as "").
C15_BodyPassedThroughUnlessEmpty ==
    \A r \in Handlers :
        LET hr == h[r] t == hr.last.text IN
        hr.last.kind = "ok" =>
            /\ Len(hr.sent) = 1
            /\ hr.last.why # "status" => t = ""
            /\ SentData(hr) = IF t = "" THEN EmptyObject
                              ELSE IF t \in JsonTexts THEN Json(t)
                              ELSE RawText(t)

\* C15 witness: a successful attempt whose body was read in full and is
\* empty; data is the empty object.
C15_Witness ==
    \E r \in Handlers :
        /\ h[r].last.kind = "ok"
        /\ h[r].last.why = "status"
        /\ h[r].last.text = ""
        /\ Len(h[r].sent) = 1
        /\ SentData(h[r]) = EmptyObject

\* C16: the ticks a handler has spent waiting on upstream calls never exceed
\* the per-attempt timeout times the number of descriptors (nor the timeout
\* times the number of attempts started so far).
C16_LatencyBound ==
    \A r \in Handlers :
        /\ h[r].latency <= TIMEOUT_MS * Len(h[r].attempts)
        /\ h[r].latency <= TIMEOUT_MS * Len(h[r].calls)

\* C16 witness: four descriptors all timed out and the response was sent
\* after exactly four timeouts.
C16_Witness ==
    \E r \in Handlers :
        /\ h[r].pc = "done"
        /\ Len(h[r].attempts) = 4
        /\ h[r].failures = 4
        /\ h[r].last.why = "timeout"
        /\ h[r].latency = TIMEOUT_MS * 4

\* The candidate sequence the specification prescribes for a request under
\* the configuration.
ExpectedUrls ==
    IF Len(UPSTREAM_URLS) > 0 THEN UPSTREAM_URLS
    ELSE IF UPSTREAM_BASE # ""
         THEN <<UPSTREAM_BASE \o "/api/join", UPSTREAM_BASE \o "/v1/join",
                UPSTREAM_BASE \o "/join">>
         ELSE <<>>

ExpectedAttempts(req) ==
    [i \in 1..(2 * Len(ExpectedUrls)) |->
        IF i % 2 = 1 THEN ExpectedPost(ExpectedUrls[(i + 1) \div 2], req)
        ELSE ExpectedGet(ExpectedUrls[i \div 2], req)]

\* The response a handler that ran alone gives for its own request and the
\* outcome of its own last attempt.
ExpectedAlone(hr) ==
    LET req == hr.req
        l == hr.last
        label == ExpectedAttempts(req)[l.index].info
    IN IF req.method = "OPTIONS" THEN NoContent
       ELSE IF req.method # "POST" THEN MethodNotAllowed
       ELSE IF ~Valid(req) THEN MissingFields
       ELSE IF l.kind = "ok"
            THEN [status |-> 200,
                  body |-> [joined |-> TRUE, upstreamStatus |-> l.status,
                            via |-> label, data |-> l.data]]
       ELSE IF l.kind = "none"
            THEN [status |-> 500,
                  body |-> [joined |-> FALSE, error |-> "No attempts made.",
                            upstreamData |-> Null]]
       ELSE IF l.gotResponse
            THEN [status |-> l.status,
                  body |-> [joined |-> FALSE,
                            error |-> "Upstream error via " \o label,
                            upstreamData |-> l.data]]
       ELSE [status |-> 502,
             body |-> [joined |-> FALSE,
                       error |-> "Fetch failed (timeout/CORS/host) via " \o label,
                       upstreamData |-> Null]]

\* A handler's record without its clock readings.
Unclocked(hr) == [hr EXCEPT !.elapsed = 0, !.latency = 0]

\* C17: with two invocations interleaved, every response is the one the
\* handler gives alone for its own request and its own last outcome, its
\* candidate list is built from its own fields, no step changes the
\* configuration, and no step changes two handlers other than by the clock.
C17_Isolated ==
    /\ [](\A r \in Handlers :
            /\ h[r].pc = "done" => h[r].sent = <<ExpectedAlone(h[r])>>
            /\ h[r].pc \in {"loop", "fetching", "reading"} =>
                  h[r].attempts = ExpectedAttempts(h[r].req))
    /\ [][/\ UPSTREAM_URLS' = UPSTREAM_URLS
          /\ UPSTREAM_BASE' = UPSTREAM_BASE
          /\ \A r, q \in Handlers :
                (r # q /\ Unclocked(h'[r]) # Unclocked(h[r]))
                    => Unclocked(h'[q]) = Unclocked(h[q])]_vars

\* C17 witness: handler 1 has answered after exhausting its own candidates
\* while handler 2, with another code, has a failure recorded and its second
\* call in flight.
C17_Witness ==
    /\ DOMAIN h = {1, 2}
    /\ h[1].req.code # h[2].req.code
    /\ h[1].pc = "done" /\ SentFailed(h[1]) /\ h[1].failures = 2
    /\ h[2].pc = "reading" /\ h[2].idx = 2 /\ h[2].failures = 1
    /\ h[2].lastError # h[1].lastError

\* C18: an ended attempt is a success exactly when the upstream answered
\* with a status in 200..299; an answer with any other status is recorded as
\* "Upstream error via <label>" with that status and the body's data; an
\* attempt without an answer is recorded as "Fetch failed ... via <label>"
\* with the generic 502 and no data.
C18_SuccessIffOkStatus ==
    \A r \in Handlers :
        LET hr == h[r]
            l == hr.last
            label == ExpectedAttempts(hr.req)[l.index].info
        IN l.kind # "none" =>
            /\ l.kind = "ok" <=> (l.gotResponse /\ l.status \in 200..299)
            /\ (l.gotResponse /\ l.status \notin 200..299) =>
                  /\ l.kind = "rejected"
                  /\ l.data # Undefined
                  /\ hr.lastError =
                        [status |-> l.status,
                         message |-> "Upstream error via " \o label,
                         data |-> l.data]
            /\ ~l.gotResponse =>
                  /\ l.kind = "unreachable"
                  /\ hr.lastError =
                        [status |-> 502,
                         message |-> "Fetch failed (timeout/CORS/host) via " \o label,
                         data |-> Undefined]

\* C18 witness: a 201 answer ended the request as a success after a 404
\* answer with a text body had been recorded as an upstream error.
C18_Witness ==
    \E r \in Handlers :
        /\ h[r].last.kind = "ok"
        /\ h[r].last.status = 201
        /\ h[r].last.index = 2
        /\ h[r].lastError.status = 404
        /\ h[r].lastError.data = RawText("oops")

\* C19: at most one timer is armed, and only for the attempt whose call is
\* open; none is armed between attempts, after the response or after a
\* throw; and an abort happens only to an attempt whose call is open.
C19_TimerCleanedUp ==
    /\ [](\A r \in Handlers :
            /\ Cardinality(h[r].armed) <= 1
            /\ h[r].armed \subseteq h[r].inflight
            /\ h[r].pc \in {"start", "loop", "done", "threw"} => h[r].armed = {})
    /\ [][\A r \in Handlers :
            \A k \in h'[r].aborted \ h[r].aborted :
                k \in h[r].inflight /\ k \in h[r].armed]_vars

\* C19 witness: the first attempt was aborted by its timer, and the second
\* attempt is in flight with its own timer the only one armed.
C19_Witness ==
    \E r \in Handlers :
        /\ h[r].aborted = {1}
        /\ h[r].armed = {2}
        /\ h[r].inflight = {2}

\* C20: the descriptors for which fetch has been called are 1, 2, ..., m in
\* this order, each once, where m is the loop's position and at most the
\* number of descriptors.
C20_NoRetries ==
    \A r \in Handlers :
        LET hr == h[r] IN
        /\ hr.calls = UpTo(Len(hr.calls))
        /\ Len(hr.calls) = hr.idx
        /\ Len(hr.calls) <= Len(hr.attempts)
        /\ hr.failures <= Len(hr.calls)

\* C20 witness: six descriptors, each fetched once, all failed, the last
\* of them by a network error or a timeout.
C20_Witness ==
    \E r \in Handlers :
        /\ h[r].pc = "done"
        /\ Len(h[r].attempts) = 6
        /\ h[r].calls = UpTo(6)
        /\ h[r].failures = 6
        /\ h[r].last.kind = "unreachable"

====
